---- MODULE Spec2Model ----
(***************************************************************************)
(* Model of src/main.py: the Apple Health export extractor                 *)
(* (HealthDataExtractor) and its driver parseHealthData.                   *)
(*                                                                         *)
(* A Python string is a sequence of tokens; a token is one character or a  *)
(* run of characters that the program never takes apart ("TypeIdentifier", *)
(* "HeartRate", "username", ...).  The token alphabets are chosen so that  *)
(* every string has one tokenisation, hence string equality is sequence    *)
(* equality and concatenation is \o.  An optional value (the result of     *)
(* dict.get or re.match) is a sequence of length at most one: <<>> is      *)
(* None and <<v>> is the value v.                                          *)
(***************************************************************************)
EXTENDS Integers, Sequences, FiniteSets, TLC

VARIABLES
    RAND,          \* main.py:25   the process-wide random string
    ABBREVIATE,    \* main.py:73   module setting read by abbreviate
    users,         \* main.py:281  the list handed to parseHealthData
    ui,            \* main.py:238  position of the for loop in users
    pc,            \* where parseHealthData stands
    err,           \* the exception that ended the run, <<>> when none
    disk,          \* the input directory: user -> what <user>.xml holds
    doc,           \* the nodes of <user>.xml as parsed, before abbreviation
    verbose,       \* self.verbose
    nodes,         \* self.nodes
    record_types,  \* self.record_types
    other_types,   \* self.other_types
    tags,          \* self.tags
    fields,        \* self.fields
    handles,       \* self.handles
    files,         \* the output directory: path -> the strings written
    stdout         \* what print has written

vars == <<RAND, ABBREVIATE, users, ui, pc, err, disk, doc, verbose, nodes,
          record_types, other_types, tags, fields, handles, files, stdout>>

---------------------------------------------------------------------------
(* Bounds of the model.                                                    *)
MaxNodes == 2      \* root children over all the documents of a run
MaxUsers == 2      \* length of the user list
MaxLen == 6        \* tokens in a type string given to abbreviate

---------------------------------------------------------------------------
(* Strings and optional values.                                            *)
S(t) == <<t>>
None == <<>>
Some(v) == <<v>>
Get(attrib, k) == IF k \in DOMAIN attrib THEN Some(attrib[k]) ELSE None

RECURSIVE Join(_, _)
Join(strs, sep) ==
    IF strs = <<>> THEN <<>>
    ELSE IF Len(strs) = 1 THEN strs[1]
    ELSE strs[1] \o sep \o Join(Tail(strs), sep)

Max(set) == CHOOSE x \in set : \A y \in set : y <= x

---------------------------------------------------------------------------
(* The schema registry.                                                    *)
RECORD_FIELDS ==
    << <<S("device"), "s">>, <<S("startDate"), "d">>, <<S("value"), "n">> >>

ACTIVITY_SUMMARY_FIELDS ==
    << <<S("dateComponents"), "d">>, <<S("activeEnergyBurned"), "n">>,
       <<S("activeEnergyBurnedGoal"), "n">>, <<S("activeEnergyBurnedUnit"), "s">>,
       <<S("appleExerciseTime"), "s">>, <<S("appleExerciseTimeGoal"), "s">>,
       <<S("appleStandHours"), "n">>, <<S("appleStandHoursGoal"), "n">> >>

WORKOUT_FIELDS ==
    << <<S("sourceName"), "s">>, <<S("sourceVersion"), "s">>, <<S("device"), "s">>,
       <<S("creationDate"), "d">>, <<S("startDate"), "d">>, <<S("endDate"), "d">>,
       <<S("workoutActivityType"), "s">>, <<S("duration"), "n">>,
       <<S("durationUnit"), "s">>, <<S("totalDistance"), "n">>,
       <<S("totalDistanceUnit"), "s">>, <<S("totalEnergyBurned"), "n">>,
       <<S("totalEnergyBurnedUnit"), "s">> >>

FIELDS == (S("Record") :> RECORD_FIELDS)
       @@ (S("ActivitySummary") :> ACTIVITY_SUMMARY_FIELDS)
       @@ (S("Workout") :> WORKOUT_FIELDS)

keys(od) == [i \in 1..Len(od) |-> od[i][1]]

---------------------------------------------------------------------------
(* float(value), round and str, on decimal strings.                        *)
Digits == <<"0", "1", "2", "3", "4", "5", "6", "7", "8", "9">>
IsDigit(c) == \E d \in 1..10 : Digits[d] = c
DigitVal(c) == (CHOOSE d \in 1..10 : Digits[d] = c) - 1

RECURSIVE DigitsVal(_)
DigitsVal(ds) ==
    IF ds = <<>> THEN 0
    ELSE 10 * DigitsVal(SubSeq(ds, 1, Len(ds) - 1)) + DigitVal(ds[Len(ds)])

RECURSIVE Pow10(_)
Pow10(k) == IF k = 0 THEN 1 ELSE 10 * Pow10(k - 1)

\* float(value): <<>> when the string is no number (ValueError),
\* else <<[num, den]>> with value num/den.
float(value) ==
    LET neg  == value # <<>> /\ value[1] = "-"
        body == IF neg THEN Tail(value) ELSE value
        dots == {i \in 1..Len(body) : body[i] = "."}
        dot  == IF dots = {} THEN Len(body) + 1 ELSE Max(dots)
        ip   == SubSeq(body, 1, dot - 1)
        fp   == SubSeq(body, dot + 1, Len(body))
        ok   == /\ Cardinality(dots) <= 1
                /\ Len(ip) + Len(fp) >= 1
                /\ \A i \in 1..Len(ip) : IsDigit(ip[i])
                /\ \A i \in 1..Len(fp) : IsDigit(fp[i])
        mag  == DigitsVal(ip) * Pow10(Len(fp)) + DigitsVal(fp)
    IN  IF ok THEN Some([num |-> IF neg THEN 0 - mag ELSE mag,
                         den |-> Pow10(Len(fp))])
        ELSE None

\* round(x): to the nearest integer, a tie to the even one.
round(x) ==
    LET q == x.num \div x.den
        r == x.num % x.den
    IN  IF 2 * r < x.den THEN q
        ELSE IF 2 * r > x.den THEN q + 1
        ELSE IF q % 2 = 0 THEN q ELSE q + 1

RECURSIVE NatStr(_)
NatStr(n) ==
    IF n < 10 THEN <<Digits[n + 1]>>
    ELSE NatStr(n \div 10) \o <<Digits[(n % 10) + 1]>>

str(n) == IF n < 0 THEN <<"-">> \o NatStr(0 - n) ELSE NatStr(n)

---------------------------------------------------------------------------
(* format_value: [exc, val]; exc is <<>> when the call returns val.         *)
Return(v) == [exc |-> None, val |-> v]
Raise(e) == [exc |-> S(e), val |-> <<>>]

\* A variant of format_value: a string is written, quoted (main.py:98-99).
format_value_quoted(value, datatype) ==
    IF value = None THEN Return(RAND)
    ELSE IF datatype = "s" THEN Return(S("\"") \o value[1] \o S("\""))
    ELSE IF datatype = "n" THEN
        LET x == float(value[1])
        IN  IF x = None THEN Raise("ValueError") ELSE Return(str(round(x[1])))
    ELSE IF datatype = "d" THEN Return(value[1])
    ELSE Raise("KeyError")

format_value(value, datatype) ==
    IF value = None \/ datatype = "s" THEN Return(RAND)
    ELSE IF datatype = "n" THEN
        LET x == float(value[1])
        IN  IF x = None THEN Raise("ValueError") ELSE Return(str(round(x[1])))
    ELSE IF datatype = "d" THEN Return(value[1])
    ELSE Raise("KeyError")

---------------------------------------------------------------------------
(* PREFIX_RE = '^HK.*TypeIdentifier(.+)$' and abbreviate.                   *)
(* "." matches any character but a newline, "$" matches at the end of the   *)
(* string or just before a newline that ends it, ".*" is greedy.            *)
NoNewline(s, a, b) == \A k \in a..b : s[k] # "\n"

GroupEnd(s) == IF s # <<>> /\ s[Len(s)] = "\n" THEN Len(s) - 1 ELSE Len(s)

\* The positions of a "TypeIdentifier" at which the whole pattern matches.
PREFIX_RE(s) ==
    {i \in 3..Len(s) :
        /\ s[1] = "H" /\ s[2] = "K"
        /\ NoNewline(s, 3, i - 1)
        /\ s[i] = "TypeIdentifier"
        /\ GroupEnd(s) >= i + 1
        /\ NoNewline(s, i + 1, GroupEnd(s))}

Min(set) == CHOOSE x \in set : \A y \in set : x <= y

\* re.match(PREFIX_RE, s): None, or the match's group(1).
re_match(s) ==
    IF PREFIX_RE(s) = {} THEN None
    ELSE Some(SubSeq(s, Max(PREFIX_RE(s)) + 1, GroupEnd(s)))

\* A variant of abbreviate: m.group(0), the whole match, in place of m.group(1).
abbreviate_group0(s, enabled) ==
    LET m == re_match(s)
    IN  IF enabled /\ m # None THEN SubSeq(s, 1, GroupEnd(s)) ELSE s

abbreviate(s, enabled) ==
    LET m == re_match(s)
    IN  IF enabled /\ m # None THEN m[1] ELSE s

---------------------------------------------------------------------------
(* Counter and dict: sequences of [key, val] in insertion order.            *)
Keys(d) == [i \in 1..Len(d) |-> d[i].key]
Has(d, k) == \E i \in 1..Len(d) : d[i].key = k
Lookup(d, k) == d[CHOOSE i \in 1..Len(d) : d[i].key = k].val
Count(c, k) == IF Has(c, k) THEN Lookup(c, k) ELSE 0

\* A variant of Incr: counter[k] = 1.
Incr_assign(c, k) ==
    IF Has(c, k)
    THEN [i \in 1..Len(c) |-> IF c[i].key = k THEN [c[i] EXCEPT !.val = 1] ELSE c[i]]
    ELSE Append(c, [key |-> k, val |-> 1])

\* counter[k] += 1
Incr(c, k) ==
    IF Has(c, k)
    THEN [i \in 1..Len(c) |-> IF c[i].key = k THEN [c[i] EXCEPT !.val = @ + 1] ELSE c[i]]
    ELSE Append(c, [key |-> k, val |-> 1])

---------------------------------------------------------------------------
(* report and print.                                                        *)
print(out, msg) == Append(out, msg)
report(v, out, msg) == IF v THEN print(out, msg) ELSE out

---------------------------------------------------------------------------
(* HealthDataExtractor: the methods as functions of the object's state.     *)
abbreviate_types(ns) ==
    [i \in 1..Len(ns) |->
        IF ns[i].tag = S("Record") /\ S("type") \in DOMAIN ns[i].attrib
        THEN [ns[i] EXCEPT !.attrib =
                 [@ EXCEPT ![S("type")] = abbreviate(@, ABBREVIATE)]]
        ELSE ns[i]]

IsRecord(tag) == tag = S("Record")
\* A variant of IsOther: every tag but Record, Export and Me.
IsOther_any(tag) == tag \notin {S("Record"), S("Export"), S("Me")}
IsOther(tag) == tag \in {S("ActivitySummary"), S("Workout")}
IsIgnored(tag) == tag \in {S("Export"), S("Me")}

\* One pass of the loop of count_record_types.
count_record_types_node(acc, record, v) ==
    IF IsRecord(record.tag) THEN
        IF S("type") \in DOMAIN record.attrib
        THEN [acc EXCEPT !.record_types = Incr(@, record.attrib[S("type")])]
        ELSE [acc EXCEPT !.exc = S("KeyError")]
    ELSE IF IsOther(record.tag) THEN
        [acc EXCEPT !.other_types = Incr(@, record.tag)]
    ELSE IF IsIgnored(record.tag) THEN acc
    ELSE [acc EXCEPT !.out =
             report(v, @, S("Unexpected node of type ") \o record.tag \o S("."))]

RECURSIVE count_record_types_loop(_, _, _, _)
count_record_types_loop(ns, i, acc, v) ==
    IF i > Len(ns) \/ acc.exc # None THEN acc
    ELSE count_record_types_loop(ns, i + 1, count_record_types_node(acc, ns[i], v), v)

count_record_types(ns, v, out) ==
    count_record_types_loop(ns, 1,
        [record_types |-> <<>>, other_types |-> <<>>, out |-> out, exc |-> None], v)

RECURSIVE IncrAll(_, _)
IncrAll(c, ks) ==
    IF ks = {} THEN c
    ELSE LET k == CHOOSE x \in ks : TRUE
         IN  IncrAll(Incr(c, k), ks \ {k})

RECURSIVE count_tags_and_fields_loop(_, _, _)
count_tags_and_fields_loop(ns, i, acc) ==
    IF i > Len(ns) THEN acc
    ELSE count_tags_and_fields_loop(ns, i + 1,
            [tags   |-> Incr(acc.tags, ns[i].tag),
             fields |-> IncrAll(acc.fields, DOMAIN ns[i].attrib)])

count_tags_and_fields(ns) ==
    count_tags_and_fields_loop(ns, 1, [tags |-> <<>>, fields |-> <<>>])

---------------------------------------------------------------------------
(* open_for_writing, write_records, close_files.                            *)
\* dict[k] = v
DictSet(d, k, v) ==
    IF Has(d, k)
    THEN [i \in 1..Len(d) |-> IF d[i].key = k THEN [key |-> k, val |-> v] ELSE d[i]]
    ELSE Append(d, [key |-> k, val |-> v])

\* self.directory: the directory of <user>.xml, a relative name.
directory == S("./")

\* open(path, 'w'): the file is created, or emptied when it exists.
Open(fs, path) == (path :> <<>>) @@ fs
\* f.write(line)
Write(fs, path, line) == [fs EXCEPT ![path] = Append(@, line)]

\* Variants of the two filters: every kind passes.
OpenFilter_all(kind) == TRUE
WriteFilter_all(kind) == TRUE

\* main.py:189  "Only open what I need: Heart Rate"
OpenFilter(kind) == kind = S("HeartRate")
\* main.py:215  "Only write what I need: Heart Rate"
WriteFilter(kind) == kind = S("HeartRate")

headerType(kind) ==
    IF kind \in {S("Workout"), S("ActivitySummary")} THEN kind ELSE S("Record")

\* A variant of HeaderLine: the header without the username column.
HeaderLine_nouser(fieldnames) == Join(fieldnames, S(",")) \o S("\n")

HeaderLine(fieldnames) == S("username") \o S(",") \o Join(fieldnames, S(",")) \o S("\n")

\* One pass of the loop of open_for_writing.
open_for_writing_kind(acc, kind, user, v) ==
    IF OpenFilter(kind) THEN
        LET path == directory \o user \o abbreviate(kind, ABBREVIATE) \o S(".csv")
            f    == [path |-> path, closes |-> 0]
        IN  IF headerType(kind) \notin DOMAIN FIELDS
            THEN [acc EXCEPT !.files = Open(@, path), !.exc = S("KeyError")]
            ELSE [acc EXCEPT
                    !.files = Write(Open(@, path), path,
                                    HeaderLine(keys(FIELDS[headerType(kind)]))),
                    !.handles = DictSet(@, kind, f),
                    !.out = report(v, @, S("Opening ") \o path \o S(" for writing"))]
    ELSE acc

RECURSIVE open_for_writing_loop(_, _, _, _, _)
open_for_writing_loop(kinds, i, acc, user, v) ==
    IF i > Len(kinds) \/ acc.exc # None THEN acc
    ELSE open_for_writing_loop(kinds, i + 1,
            open_for_writing_kind(acc, kinds[i], user, v), user, v)

open_for_writing(user, rts, ots, v, fs, out) ==
    open_for_writing_loop(Keys(rts) \o Keys(ots), 1,
        [handles |-> <<>>, files |-> fs, out |-> out, exc |-> None], user, v)

\* [format_value(attributes.get(field), datatype) for (field, datatype) in ...]:
\* the values formatted so far, and the exception that stopped the list.
RECURSIVE FormatValues(_, _, _, _)
FormatValues(attributes, schema, i, acc) ==
    IF i > Len(schema) \/ acc.exc # None THEN acc
    ELSE LET r == format_value(Get(attributes, schema[i][1]), schema[i][2])
         IN  FormatValues(attributes, schema, i + 1,
                 IF r.exc # None THEN [acc EXCEPT !.exc = r.exc]
                 ELSE [acc EXCEPT !.values = Append(@, r.val)])

\* A variant of RowLine: the line without the user name.
RowLine_nouser(user, values) == Join(values, S(",")) \o S("\n")

RowLine(user, values) == user \o S(",") \o Join(values, S(",")) \o S("\n")

\* One pass of the loop of write_records, at node number n.
write_records_node(acc, node, n, user, hs) ==
    IF node.tag \in DOMAIN FIELDS THEN
        IF IsRecord(node.tag) /\ S("type") \notin DOMAIN node.attrib
        THEN [acc EXCEPT !.exc = S("KeyError"), !.node = n]
        ELSE
        LET kind == IF IsRecord(node.tag) THEN node.attrib[S("type")] ELSE node.tag
        IN  IF WriteFilter(kind) THEN
                LET vs == FormatValues(node.attrib, FIELDS[node.tag], 1,
                                       [values |-> <<>>, exc |-> None])
                IN  IF vs.exc # None
                    THEN [acc EXCEPT !.exc = vs.exc, !.node = n]
                    ELSE IF ~Has(hs, kind)
                    THEN [acc EXCEPT !.exc = S("KeyError"), !.node = n]
                    ELSE [acc EXCEPT !.files =
                            Write(@, Lookup(hs, kind).path, RowLine(user, vs.values))]
            ELSE acc
    ELSE acc

RECURSIVE write_records_loop(_, _, _, _, _)
write_records_loop(ns, i, acc, user, hs) ==
    IF i > Len(ns) \/ acc.exc # None THEN acc
    ELSE write_records_loop(ns, i + 1,
            write_records_node(acc, ns[i], i, user, hs), user, hs)

write_records(user, ns, hs, fs) ==
    write_records_loop(ns, 1, [files |-> fs, exc |-> None, node |-> 0], user, hs)

RECURSIVE close_files_loop(_, _, _, _)
close_files_loop(hs, i, out, v) ==
    IF i > Len(hs) THEN [handles |-> hs, out |-> out]
    ELSE close_files_loop(
            [hs EXCEPT ![i].val.closes = @ + 1], i + 1,
            report(v, out, S("Written ") \o abbreviate(hs[i].key, ABBREVIATE) \o S(" data.")),
            v)

close_files(hs, v, out) == close_files_loop(hs, 1, out, v)

---------------------------------------------------------------------------
(* The inputs: user lists and the contents of <user>.xml.                   *)
UserNames == {S("Cam"), S("Bo")}
UserLists == UNION {[1..n -> UserNames] : n \in 0..MaxUsers}
RandValues == {S("0.11"), S("0.73")}

HRLong == <<"H", "K", "Quantity", "TypeIdentifier", "HeartRate">>
StepLong == <<"H", "K", "Quantity", "TypeIdentifier", "StepCount">>
Date1 == S("2020-01-01 10:00")

Node(tag, attrib) == [tag |-> S(tag), attrib |-> attrib]
Attr(k, v) == S(k) :> v

NodeChoices ==
    { Node("Record", Attr("type", HRLong) @@ Attr("device", S("Watch"))
                     @@ Attr("startDate", Date1) @@ Attr("value", <<"7", "2">>)),
      Node("Record", Attr("type", S("HeartRate")) @@ Attr("value", <<"2", ".", "5">>)),
      Node("Record", Attr("type", HRLong) @@ Attr("device", S("Watch"))
                     @@ Attr("startDate", Date1) @@ Attr("value", <<"a", "b", "c">>)),
      Node("Record", Attr("type", StepLong) @@ Attr("device", S("Watch"))
                     @@ Attr("startDate", Date1) @@ Attr("value", <<"a", "b", "c">>)),
      Node("Record", Attr("device", S("Watch")) @@ Attr("value", <<"7", "2">>)),
      Node("Workout", Attr("device", S("Watch")) @@ Attr("startDate", Date1)
                      @@ Attr("duration", <<"3", "0">>)),
      Node("Foo", Attr("device", S("Watch"))),
      Node("Me", Attr("device", S("Watch"))) }

\* What open(path) and ElementTree.parse find at <user>.xml: no file, a file
\* that is not XML, or a document with n root children.
InputFiles(n) ==
    (IF n = 0
     THEN {[kind |-> "missing", nodes |-> <<>>], [kind |-> "malformed", nodes |-> <<>>]}
     ELSE {})
    \cup {[kind |-> "xml", nodes |-> d] : d \in [1..n -> NodeChoices]}

Disks ==
    UNION {UNION {{(S("Cam") :> f) @@ (S("Bo") :> g) :
                        f \in InputFiles(a), g \in InputFiles(b)} :
                  b \in 0..(MaxNodes - a)} :
           a \in 0..MaxNodes}

VERBOSE == FALSE

---------------------------------------------------------------------------
(* The run: parseHealthData(users) as called by the main block.             *)
Init ==
    /\ RAND \in RandValues
    /\ ABBREVIATE = TRUE
    /\ verbose = VERBOSE
    /\ users \in UserLists
    /\ disk \in Disks
    /\ ui = 1
    /\ pc = "start"
    /\ err = <<>>
    /\ doc = <<>>
    /\ nodes = <<>>
    /\ record_types = <<>>
    /\ other_types = <<>>
    /\ tags = <<>>
    /\ fields = <<>>
    /\ handles = <<>>
    /\ files = <<>>
    /\ stdout = <<>>

\* A variant of Uncaught: the driver skips the user that failed.
Uncaught_skip(e, where, n) ==
    /\ pc' = "start"
    /\ err' = <<[exc |-> e, where |-> where, node |-> n]>>
    /\ ui' = ui + 1

\* An exception nothing catches: the run ends.
Uncaught(e, where, n) ==
    /\ pc' = "failed"
    /\ err' = <<[exc |-> e, where |-> where, node |-> n]>>
    /\ ui' = ui

\* data = HealthDataExtractor(user + ".xml"), then the driver's print.
HealthDataExtractor ==
    /\ pc = "start"
    /\ ui <= Len(users)
    /\ LET f    == disk[users[ui]]
            path == users[ui] \o S(".xml")
            out1 == report(verbose, stdout,
                           S("Reading data from ") \o path \o S(" . . . "))
            out2 == report(verbose, out1, S("done"))
            ns   == abbreviate_types(f.nodes)
            c    == count_record_types(ns, verbose, out2)
            t    == count_tags_and_fields(ns)
        IN  IF f.kind = "missing" THEN
                /\ Uncaught(S("FileNotFoundError"), "__init__", 0)
                /\ UNCHANGED <<doc, nodes, record_types, other_types, tags, fields,
                               handles, stdout>>
            ELSE IF f.kind = "malformed" THEN
                /\ Uncaught(S("ParseError"), "__init__", 0)
                /\ stdout' = out1
                /\ UNCHANGED <<doc, nodes, record_types, other_types, tags, fields,
                               handles>>
            ELSE IF c.exc # None THEN
                /\ Uncaught(c.exc, "count_record_types", 0)
                /\ stdout' = c.out
                /\ UNCHANGED <<doc, nodes, record_types, other_types, tags, fields,
                               handles>>
            ELSE
                /\ doc' = f.nodes
                /\ nodes' = ns
                /\ record_types' = c.record_types
                /\ other_types' = c.other_types
                /\ tags' = t.tags
                /\ fields' = t.fields
                /\ handles' = <<>>
                /\ stdout' = print(c.out, S("Extracting data from ") \o users[ui]
                                          \o S("'s file"))
                /\ pc' = "constructed"
                /\ UNCHANGED <<err, ui>>
    /\ UNCHANGED <<RAND, ABBREVIATE, users, disk, verbose, files>>

\* extract: self.open_for_writing(user)
extract_open ==
    /\ pc = "constructed"
    /\ LET r == open_for_writing(users[ui], record_types, other_types, verbose,
                                 files, stdout)
       IN  /\ handles' = r.handles
           /\ files' = r.files
           /\ stdout' = r.out
           /\ IF r.exc # None THEN Uncaught(r.exc, "open_for_writing", 0)
              ELSE pc' = "opened" /\ UNCHANGED <<err, ui>>
    /\ UNCHANGED <<RAND, ABBREVIATE, users, disk, verbose, doc, nodes, record_types,
                   other_types, tags, fields>>

\* extract: self.write_records(user)
extract_write ==
    /\ pc = "opened"
    /\ LET r == write_records(users[ui], nodes, handles, files)
       IN  /\ files' = r.files
           /\ IF r.exc # None THEN Uncaught(r.exc, "write_records", r.node)
              ELSE pc' = "written" /\ UNCHANGED <<err, ui>>
    /\ UNCHANGED <<RAND, ABBREVIATE, users, disk, verbose, doc, nodes, record_types,
                   other_types, tags, fields, handles, stdout>>

\* extract: self.close_files(); the for loop goes to the next user.
extract_close ==
    /\ pc = "written"
    /\ LET r == close_files(handles, verbose, stdout)
       IN  /\ handles' = r.handles
           /\ stdout' = r.out
    /\ ui' = ui + 1
    /\ pc' = "start"
    /\ UNCHANGED <<RAND, ABBREVIATE, users, disk, verbose, err, doc, nodes, record_types,
                   other_types, tags, fields, files>>

\* The for loop is exhausted: print("Data extracted").
main_exit ==
    /\ pc = "start"
    /\ ui > Len(users)
    /\ stdout' = print(stdout, S("Data extracted"))
    /\ pc' = "done"
    /\ UNCHANGED <<RAND, ABBREVIATE, users, ui, disk, verbose, err, doc, nodes,
                   record_types, other_types, tags, fields, handles, files>>

Next ==
    \/ HealthDataExtractor
    \/ extract_open
    \/ extract_write
    \/ extract_close
    \/ main_exit

Spec == Init /\ [][Next]_vars

---------------------------------------------------------------------------
(* abbreviate on every type string of up to MaxLen tokens: a run on one     *)
(* user whose document is a single Record node, under either setting of     *)
(* ABBREVIATE.                                                              *)
TypeTokens == {"H", "K", "TypeIdentifier", "HeartRate", "\n"}
TypeStrings == UNION {[1..n -> TypeTokens] : n \in 0..MaxLen}

InitAbbrev ==
    /\ RAND = S("0.11")
    /\ ABBREVIATE \in BOOLEAN
    /\ verbose = VERBOSE
    /\ users = <<S("Cam")>>
    /\ \E s \in TypeStrings :
         disk = (S("Cam") :>
                    [kind |-> "xml",
                     nodes |-> <<Node("Record", Attr("type", s)
                                        @@ Attr("value", <<"7", "2">>))>>])
                @@ (S("Bo") :> [kind |-> "missing", nodes |-> <<>>])
    /\ ui = 1
    /\ pc = "start"
    /\ err = <<>>
    /\ doc = <<>>
    /\ nodes = <<>>
    /\ record_types = <<>>
    /\ other_types = <<>>
    /\ tags = <<>>
    /\ fields = <<>>
    /\ handles = <<>>
    /\ files = <<>>
    /\ stdout = <<>>

SpecAbbrev == InitAbbrev /\ [][Next]_vars

---------------------------------------------------------------------------
(* Vocabulary of the properties.                                            *)
\* The path of the heart-rate file of a user.
OutPath(user) == S("./") \o user \o S("HeartRate") \o S(".csv")

IsHeartRate(node) ==
    /\ node.tag = S("Record")
    /\ S("type") \in DOMAIN node.attrib
    /\ node.attrib[S("type")] = S("HeartRate")

HeartRateNodes(ns) == SelectSeq(ns, IsHeartRate)

RECURSIVE LineCount(_)
LineCount(content) ==
    IF content = <<>> THEN 0
    ELSE Cardinality({j \in 1..Len(Head(content)) : Head(content)[j] = "\n"})
         + LineCount(Tail(content))

DataRows(content) == LineCount(content) - 1

RECURSIVE SplitAt(_, _)
SplitAt(s, sep) ==
    IF \A i \in 1..Len(s) : s[i] # sep THEN <<s>>
    ELSE LET i == Min({j \in 1..Len(s) : s[j] = sep})
         IN  <<SubSeq(s, 1, i - 1)>> \o SplitAt(SubSeq(s, i + 1, Len(s)), sep)

\* The columns of a line that ends in a newline.
Columns(line) == SplitAt(SubSeq(line, 1, Len(line) - 1), ",")

\* extract(users[ui]) is running, or an exception has ended it.
ExtractFailed ==
    pc = "failed" /\ err[1].where \in {"open_for_writing", "write_records"}
Extracting == pc \in {"constructed", "opened", "written"} \/ ExtractFailed
\* extract(users[ui - 1]) has returned, and no later extractor has been built.
ExtractDone == pc \in {"start", "done"} /\ ui > 1

---------------------------------------------------------------------------
\* C1: after extract(user) has completed, the data rows (lines after the
\* header) of the user's HeartRate file are as many as the Record nodes whose
\* abbreviated type is "HeartRate", which is also record_types["HeartRate"];
\* with no such node the extraction holds no file.
C1_RowCount ==
    ExtractDone =>
        LET n == Len(HeartRateNodes(nodes))
            p == OutPath(users[ui - 1])
        IN  /\ n = Count(record_types, S("HeartRate"))
            /\ n > 0 => /\ p \in DOMAIN files
                        /\ DataRows(files[p]) = n
            /\ n = 0 => handles = <<>>

C1_Witness ==
    /\ ExtractDone
    /\ Len(nodes) = 2
    /\ Len(HeartRateNodes(nodes)) = 2
    /\ \E i \in 1..2 : doc[i].attrib[S("type")] = HRLong
    /\ DataRows(files[OutPath(users[ui - 1])]) = 2

ExpectedRow(user, node) ==
    user \o S(",") \o format_value(Get(node.attrib, S("device")), "s").val
         \o S(",") \o format_value(Get(node.attrib, S("startDate")), "d").val
         \o S(",") \o format_value(Get(node.attrib, S("value")), "n").val
         \o S("\n")

\* C2: the i-th data row is the row of the i-th HeartRate node in document
\* order: the user name, then format_value of device, startDate and value,
\* comma-separated and newline-terminated; no other row is in the file.
C2_RowOrder ==
    ExtractDone =>
        LET hr == HeartRateNodes(nodes)
            p  == OutPath(users[ui - 1])
        IN  hr # <<>> =>
                /\ p \in DOMAIN files
                /\ Len(files[p]) = Len(hr) + 1
                /\ \A i \in 1..Len(hr) :
                        files[p][i + 1] = ExpectedRow(users[ui - 1], hr[i])

C2_Witness ==
    /\ ExtractDone
    /\ Len(HeartRateNodes(nodes)) = 2
    /\ LET p == OutPath(users[ui - 1])
       IN  /\ Len(files[p]) = 3
           /\ files[p][2] # files[p][3]
           /\ files[p][2] = users[ui - 1] \o <<",">> \o RAND
                             \o <<",", "2020-01-01 10:00", ",", "7", "2", "\n">>

\* C3: when an extract call has ended, by returning or by an exception, every
\* handle that open_for_writing opened has been closed exactly once.
C3_ClosedOnEveryExit ==
    (ExtractDone \/ ExtractFailed) =>
        \A i \in 1..Len(handles) : handles[i].val.closes = 1

\* What does hold: the handles are closed once when extract returns.
C3_ClosedOnReturn ==
    ExtractDone => \A i \in 1..Len(handles) : handles[i].val.closes = 1

RecordType(field) ==
    RECORD_FIELDS[CHOOSE j \in 1..Len(RECORD_FIELDS) : RECORD_FIELDS[j][1] = field][2]

\* C5: the first line of every output file is "username," followed by the
\* comma-joined field names of the Record schema and a newline, and every
\* data row has the header's columns: under column j stands format_value of
\* the attribute the header names there, with that field's semantic type.
C5_Header ==
    /\ \A p \in DOMAIN files :
          /\ files[p] # <<>>
          /\ files[p][1] =
                <<"username", ",", "device", ",", "startDate", ",", "value", "\n">>
    /\ ExtractDone =>
          LET hr   == HeartRateNodes(nodes)
              p    == OutPath(users[ui - 1])
          IN  hr # <<>> =>
                LET cols == Columns(files[p][1])
                IN  \A i \in 1..Len(hr) :
                        LET row == Columns(files[p][i + 1])
                        IN  /\ Len(row) = Len(cols)
                            /\ \A j \in 2..Len(cols) :
                                  row[j] = format_value(Get(hr[i].attrib, cols[j]),
                                                        RecordType(cols[j])).val

C5_Witness ==
    /\ ExtractDone
    /\ Len(HeartRateNodes(nodes)) = 1
    /\ LET p == OutPath(users[ui - 1])
       IN  /\ Len(files[p]) = 2
           /\ Columns(files[p][1]) =
                 <<S("username"), S("device"), S("startDate"), S("value")>>
           /\ Columns(files[p][2]) =
                 <<users[ui - 1], RAND, S("2020-01-01 10:00"), <<"7", "2">>>>

Unexpected(node) == node.tag \notin
    {S("Record"), S("ActivitySummary"), S("Workout"), S("Export"), S("Me")}

Warnings(out) ==
    Cardinality({i \in 1..Len(out) : out[i][1] = "Unexpected node of type "})

RECURSIVE Total(_)
Total(c) == IF c = <<>> THEN 0 ELSE Head(c).val + Total(Tail(c))

StartsWithPrefix(s) ==
    \E i \in 3..Len(s) :
        /\ s[1] = "H" /\ s[2] = "K"
        /\ NoNewline(s, 3, i - 1)
        /\ s[i] = "TypeIdentifier"

TypedRecords == {i \in 1..Len(nodes) : /\ nodes[i].tag = S("Record")
                                       /\ S("type") \in DOMAIN nodes[i].attrib}
TypeOf(ns, i) == ns[i].attrib[S("type")]

IsEndPartOf(s, orig) ==
    \E a \in 1..Len(orig), b \in 0..1 :
        /\ a + Len(s) + b = Len(orig)
        /\ s = SubSeq(orig, a + 1, a + Len(s))

\* C8 as stated: with abbreviation enabled no Record type starts with an
\* HK...TypeIdentifier prefix after the abbreviation pass; with abbreviation
\* disabled, or for a string the pattern does not match, the type is the
\* original string.
C8_NoPrefixLeft ==
    (Extracting \/ ExtractDone) =>
        \A i \in TypedRecords :
            /\ ABBREVIATE => ~StartsWithPrefix(TypeOf(nodes, i))
            /\ (~ABBREVIATE \/ PREFIX_RE(TypeOf(doc, i)) = {}) =>
                  TypeOf(nodes, i) = TypeOf(doc, i)

\* C8 as amended: with abbreviation enabled no Record type matches the whole
\* pattern after the pass, that is, none is an HK...TypeIdentifier prefix
\* followed by a non-empty rest on the same line, and a type that matched has
\* become a proper end part of the original; with abbreviation disabled, or
\* for a string the pattern does not match, the type is the original string.
C8_NoMatchLeft ==
    (Extracting \/ ExtractDone) =>
        \A i \in TypedRecords :
            /\ ABBREVIATE => /\ PREFIX_RE(TypeOf(nodes, i)) = {}
                             /\ PREFIX_RE(TypeOf(doc, i)) # {} =>
                                   IsEndPartOf(TypeOf(nodes, i), TypeOf(doc, i))
            /\ (~ABBREVIATE \/ PREFIX_RE(TypeOf(doc, i)) = {}) =>
                  TypeOf(nodes, i) = TypeOf(doc, i)

C8_Witness ==
    /\ pc = "done"
    /\ ABBREVIATE
    /\ TypeOf(doc, 1) = <<"H", "K", "TypeIdentifier", "H", "K", "TypeIdentifier">>
    /\ TypeOf(nodes, 1) = <<"H", "K", "TypeIdentifier">>
    /\ StartsWithPrefix(TypeOf(nodes, 1))

C9_Step ==
    /\ err = <<>>
    /\ <<pc, pc'>> \in {<<"start", "constructed">>, <<"start", "failed">>,
                        <<"start", "done">>, <<"constructed", "opened">>,
                        <<"constructed", "failed">>, <<"opened", "written">>,
                        <<"opened", "failed">>, <<"written", "start">>}
    /\ ui' = IF pc = "written" THEN ui + 1 ELSE ui
    /\ pc' = "constructed" => nodes' = abbreviate_types(disk[users[ui]].nodes)
    /\ pc' = "done" => ui = Len(users) + 1
    /\ \A p \in DOMAIN files :
          (ui > Len(users) \/ p # OutPath(users[ui])) =>
              /\ p \in DOMAIN files'
              /\ files'[p] = files[p]

\* C9: the users are processed one after the other in list order, each one's
\* construction, open, write and close in that order before the next user; an
\* exception for any user ends the run, no step follows it, so no later user
\* is processed; and a step for one user changes no other user's output file.
C9_Sequential == [][C9_Step]_vars

C9_Witness ==
    /\ pc = "failed"
    /\ ui = 1
    /\ Len(users) = 2
    /\ users[2] # users[1]
    /\ disk[users[2]].kind = "xml"
    /\ HeartRateNodes(abbreviate_types(disk[users[2]].nodes)) # <<>>
    /\ OutPath(users[2]) \notin DOMAIN files

\* The kinds of the nodes that pass the tests of write_records.
KindOf(node) == IF node.tag = S("Record") THEN node.attrib[S("type")] ELSE node.tag

SelectedKinds ==
    {KindOf(nodes[i]) :
        i \in {j \in 1..Len(nodes) : /\ nodes[j].tag \in DOMAIN FIELDS
                                      /\ WriteFilter(KindOf(nodes[j]))}}

====
